---- MODULE Spec2Model ----
(***************************************************************************)
(* Model of e3nn_jax/_src/s2grid.py: the parity resolver                   *)
(* (_check_parities), the SphericalSignal container and its arithmetic,    *)
(* and the control flow of from_s2grid / to_s2grid / to_s2point.           *)
(*                                                                         *)
(* An Irreps value is a sequence of records [mul, l, p]; a parity is +1 or *)
(* -1 and Python's None is the value None below.  A call's outcome is a    *)
(* record: Return(v) or Raise(e).  Grid values and coefficient values are  *)
(* floating point arrays and are not represented: a signal is modelled by  *)
(* its grid resolution, quadrature and parity pair, a coefficient array by *)
(* its irreps.                                                             *)
(***************************************************************************)
EXTENDS Integers, Sequences, FiniteSets, TLC

\* ---------------------------------------------------------------- bounds
MaxLen == 2
MaxL == 2
MaxMul == 1
MaxRes == 3
MaxBatch == 2
MaxCells == 12

\* ---------------------------------------------------------------- values
None == 0

Parities == {1, -1}

OptParities == {None, 1, -1}

Raise(e, m) == [exc |-> e, msg |-> m]

Return(v) == [exc |-> "none", val |-> v]

MulIr == [mul : 1..MaxMul, l : 0..MaxL, p : Parities]

IrrepsSet == UNION {[1..n -> MulIr] : n \in 0..MaxLen}

\* ------------------------------------------------------- parity resolver
\* line 407 / 408: {ir.p for mul, ir in irreps if ir.l % 2 == r}
parity_set(irreps, r) ==
    {irreps[i].p : i \in {j \in DOMAIN irreps : irreps[j].l % 2 = r}}

\* a resolver that validates the even-degree set only
sets_collapse_even_only(s_even, s_odd) ==
    s_even \in {{1}, {-1}, {}}

\* line 409: each observed set is {1}, {-1} or empty
sets_collapse(s_even, s_odd) ==
    /\ s_even \in {{1}, {-1}, {}}
    /\ s_odd \in {{1}, {-1}, {}}

\* a resolver that defaults an unobserved parity to +1
pop_or_default(s) == IF s = {} THEN 1 ELSE CHOOSE e \in s : TRUE

\* lines 412-413: s.pop() if s else None
pop_or_None(s) == IF s = {} THEN None ELSE CHOOSE e \in s : TRUE

\* a resolver that compares the odd-degree parity with p_arg itself
compatible_with_pair_odd_is_p_arg(p_even, p_odd, pv, pa) ==
    /\ p_even \in {pv, None}
    /\ p_odd \in {pa, None}

\* line 416: compatibility with a fully supplied pair
compatible_with_pair(p_even, p_odd, pv, pa) ==
    /\ p_even \in {pv, None}
    /\ p_odd \in {pv * pa, None}

\* a resolver that never adopts the supplied p_val
adopt_p_val_never(p_even, pv) == p_even

\* lines 422-424: only the adoption of p_val when no even degree is observed
adopt_p_val(p_even, pv) ==
    IF pv # None /\ p_even = None THEN pv ELSE p_even

\* lines 428-432: p_arg threads the known parity to the unknown one
derive_p_odd(p_even, p_odd, pa) ==
    IF pa # None /\ p_odd = None /\ p_even # None THEN p_even * pa ELSE p_odd

\* a resolver that does not derive the even-degree parity from the odd one
derive_p_even_never(p_even, p_odd, pa) == p_even

derive_p_even(p_even, p_odd, pa) ==
    IF pa # None /\ p_odd # None /\ p_even = None THEN p_odd * pa ELSE p_even

\* lines 433-435: both observed and p_arg supplied
p_arg_conflict(p_even, p_odd, pa) ==
    /\ pa # None
    /\ p_odd # None
    /\ p_even # None
    /\ p_odd # p_even * pa

\* a resolver that returns the odd-degree parity in place of p_arg
resolved_pair_odd_as_p_arg(p_even, p_odd) ==
    IF p_even # None /\ p_odd # None
    THEN <<p_even, p_odd>>
    ELSE <<p_even, None>>

\* lines 437-440
resolved_pair(p_even, p_odd) ==
    IF p_even # None /\ p_odd # None
    THEN <<p_even, p_even * p_odd>>
    ELSE <<p_even, None>>

_check_parities(irreps, pv, pa) ==
    LET s_even == parity_set(irreps, 0)
        s_odd == parity_set(irreps, 1)
    IN  IF ~sets_collapse(s_even, s_odd) THEN Raise("ValueError", "parities")
        ELSE
        LET p_even0 == pop_or_None(s_even)
            p_odd0 == pop_or_None(s_odd)
        IN  IF pv # None /\ pa # None
            THEN IF ~compatible_with_pair(p_even0, p_odd0, pv, pa)
                 THEN Raise("ValueError", "parities")
                 ELSE Return(<<pv, pa>>)
            ELSE
            LET p_even1 == adopt_p_val(p_even0, pv)
            IN  IF pv # None /\ p_even1 # pv THEN Raise("ValueError", "parities")
                ELSE
                LET p_odd2 == derive_p_odd(p_even1, p_odd0, pa)
                    p_even2 == derive_p_even(p_even1, p_odd0, pa)
                IN  IF p_arg_conflict(p_even1, p_odd0, pa)
                    THEN Raise("ValueError", "parities")
                    ELSE Return(resolved_pair(p_even2, p_odd2))

\* ------------------------------------------------------------ e3nn.Irreps
\* Irrep ordering of e3nn: 0e < 0o < 1o < 1e < 2e < 2o < ...
ir_rank(l, p) == 2 * l + (IF p = (IF l % 2 = 0 THEN 1 ELSE -1) THEN 0 ELSE 1)

\* the irrep of rank k
ir_of_rank(k) ==
    [l |-> k \div 2, p |-> IF (k % 2 = 0) = ((k \div 2) % 2 = 0) THEN 1 ELSE -1]

\* total multiplicity of the irrep of rank k among the first n entries
RECURSIVE mul_of(_, _, _)
mul_of(irs, k, n) ==
    IF n = 0 THEN 0
    ELSE (IF ir_rank(irs[n].l, irs[n].p) = k THEN irs[n].mul ELSE 0) + mul_of(irs, k, n - 1)

nonzero_mul(mul_ir) == mul_ir.mul > 0

\* Irreps.regroup(): drop zero multiplicities, sort, merge equal irreps
regroup(irs) ==
    SelectSeq([k \in 1..(2 * MaxL + 2) |->
                  [mul |-> mul_of(irs, k - 1, Len(irs)),
                   l |-> ir_of_rank(k - 1).l,
                   p |-> ir_of_rank(k - 1).p]],
              nonzero_mul)

\* Irreps.ls: the degree of every irrep, repeated mul times
RECURSIVE ls_upto(_, _)
ls_upto(irs, n) ==
    IF n = 0 THEN <<>>
    ELSE ls_upto(irs, n - 1) \o [i \in 1..irs[n].mul |-> irs[n].l]

ls(irs) == ls_upto(irs, Len(irs))

seq_max(s) == CHOOSE m \in {s[i] : i \in DOMAIN s} : \A i \in DOMAIN s : s[i] <= m

\* a multiplicity check that accepts everything
all_mul_any(irreps) == TRUE

\* all(mul == 1 for mul, _ in irreps)
all_mul_one(irreps) == \A i \in DOMAIN irreps : irreps[i].mul = 1

\* -------------------------------------------------------- SphericalSignal
Quadratures == {"soft", "gausslegendre"}

\* the grid sizes used: an even and an odd one
Resolutions == (MaxRes - 1)..MaxRes

Signals ==
    [res_beta : Resolutions, res_alpha : Resolutions, quadrature : Quadratures,
     p_val : Parities, p_arg : Parities]

NoSignal ==
    [res_beta |-> 0, res_alpha |-> 0, quadrature |-> "none", p_val |-> None, p_arg |-> None]

\* a constructor that stores whatever it is given
SphericalSignal_unchecked(res_beta, res_alpha, quadrature, pv, pa) ==
    Return([res_beta |-> res_beta, res_alpha |-> res_alpha, quadrature |-> quadrature,
            p_val |-> pv, p_arg |-> pa])

\* SphericalSignal.__init__ on grid values of shape (..., res_beta, res_alpha)
SphericalSignal(res_beta, res_alpha, quadrature, pv, pa) ==
    IF quadrature \notin {"soft", "gausslegendre"} THEN Raise("ValueError", "quadrature")
    ELSE IF pv \notin {-1, 1} THEN Raise("ValueError", "p_val")
    ELSE IF pa \notin {-1, 1} THEN Raise("ValueError", "p_arg")
    ELSE Return([res_beta |-> res_beta, res_alpha |-> res_alpha, quadrature |-> quadrature,
                 p_val |-> pv, p_arg |-> pa])

grid_resolution(s) == <<s.res_beta, s.res_alpha>>

same_resolution(a, b) == grid_resolution(a) = grid_resolution(b)

same_parity(a, b) == <<a.p_val, a.p_arg>> = <<b.p_val, b.p_arg>>

\* an addition that does not compare the quadratures
same_quadrature_unchecked(a, b) == TRUE

same_quadrature(a, b) == a.quadrature = b.quadrature

__mul__(self) ==
    SphericalSignal(self.res_beta, self.res_alpha, self.quadrature, self.p_val, self.p_arg)

__rmul__(self) ==
    SphericalSignal(self.res_beta, self.res_alpha, self.quadrature, self.p_val, self.p_arg)

__add__(self, other_) ==
    IF ~same_resolution(self, other_) THEN Raise("ValueError", "resolution")
    ELSE IF ~same_parity(self, other_) THEN Raise("ValueError", "parity")
    ELSE IF ~same_quadrature(self, other_) THEN Raise("ValueError", "quadrature")
    ELSE SphericalSignal(self.res_beta, self.res_alpha, self.quadrature, self.p_val, self.p_arg)

__sub__(self, other_) ==
    IF ~same_resolution(self, other_) THEN Raise("ValueError", "resolution")
    ELSE IF ~same_parity(self, other_) THEN Raise("ValueError", "parity")
    ELSE IF ~same_quadrature(self, other_) THEN Raise("ValueError", "quadrature")
    ELSE SphericalSignal(self.res_beta, self.res_alpha, self.quadrature, self.p_val, self.p_arg)

\* ----------------------------------------------------------- grid geometry
\* soft weights computed for every b
_quadrature_weights_soft_any(b) == Return(b)

\* _quadrature_weights_soft: the assertion on b
_quadrature_weights_soft(b) ==
    IF b % 2 # 0 THEN Raise("AssertionError", "res_beta") ELSE Return(b)

\* _s2grid: the lengths of (y, alpha, qw), or the error
_s2grid(res_beta, res_alpha, quadrature) ==
    IF quadrature = "soft"
    THEN LET qw == _quadrature_weights_soft(res_beta)
         IN  IF qw.exc # "none" THEN qw ELSE Return(<<res_beta, res_alpha, res_beta>>)
    ELSE IF quadrature = "gausslegendre"
    THEN IF res_beta < 1 THEN Raise("ValueError", "deg")
         ELSE Return(<<res_beta, res_alpha, res_beta>>)
    ELSE Raise("Exception", "quadrature")

\* Floating-point values are kept as integers in units of 1/Scale.
Scale == 10000

\* np.pi
Pi == 31416

\* a * b
fmul(a, b) == (a * b) \div Scale

\* np.sin of r * pi / (2 * b) for 0 <= r <= b, by its Taylor series
sin_quarter(r, b) ==
    LET t == (Pi * r) \div (2 * b)
        t2 == fmul(t, t)
        h4 == Scale - t2 \div 72
        h3 == Scale - fmul(t2, h4) \div 42
        h2 == Scale - fmul(t2, h3) \div 20
        h1 == Scale - fmul(t2, h2) \div 6
    IN  fmul(t, h1)

\* np.sin of n * pi / (2 * b) for an integer n >= 0
np_sin(n, b) ==
    LET r == n % (4 * b)
    IN  IF r <= b THEN sin_quarter(r, b)
        ELSE IF r <= 2 * b THEN sin_quarter(2 * b - r, b)
        ELSE IF r <= 3 * b THEN 0 - sin_quarter(r - 2 * b, b)
        ELSE 0 - sin_quarter(4 * b - r, b)

RECURSIVE seq_sum(_)
seq_sum(w) == IF w = <<>> THEN 0 ELSE w[1] + seq_sum(Tail(w))

\* _quadrature_weights_soft, lines 333-343: the weights for an even b
soft_weights(b) ==
    [i \in 1..b |->
        LET j == i - 1
        IN  fmul(fmul((4 * Scale) \div b, np_sin(2 * j + 1, b)),
                 seq_sum([kk \in 1..(b \div 2) |->
                             np_sin((2 * j + 1) * (2 * (kk - 1) + 1), b) \div (2 * (kk - 1) + 1)]))]

\* np.polynomial.legendre.leggauss(deg)[1]: the Gauss-Legendre weights
leggauss(deg) ==
    CASE deg = 1 -> <<20000>>
      [] deg = 2 -> <<10000, 10000>>
      [] deg = 3 -> <<5556, 8889, 5556>>
      [] deg = 4 -> <<3479, 6521, 6521, 3479>>
      [] deg = 5 -> <<2369, 4786, 5689, 4786, 2369>>
      [] deg = 6 -> <<1713, 3608, 4679, 4679, 3608, 1713>>

\* a grid whose weights are left as the quadrature rule gives them
halved_not(w) == w

\* qw /= 2.0
halved(w) == w \div 2

\* _s2grid, lines 359-370, when it raises nothing: the weights qw
_s2grid_qw(res_beta, quadrature) ==
    LET qw == IF quadrature = "soft" THEN soft_weights(res_beta) ELSE leggauss(res_beta)
    IN  [i \in 1..res_beta |-> halved(qw[i])]

\* _s2grid: (y, alpha, qw), y and alpha by their lengths, or the error
s2grid(res_beta, res_alpha, quadrature) ==
    LET g == _s2grid(res_beta, res_alpha, quadrature)
    IN  IF g.exc # "none" THEN g
        ELSE Return([y |-> g.val[1], alpha |-> g.val[2],
                     qw |-> _s2grid_qw(res_beta, quadrature)])

Normalizations == {"component", "norm", "integral"}

\* _normalization: the length of the scale vector, or the error
_normalization(lmax, normalization) ==
    IF normalization = "component" THEN Return(lmax + 1)
    ELSE IF normalization = "norm" THEN Return(lmax + 1)
    ELSE IF normalization = "integral" THEN Return(lmax + 1)
    ELSE Raise("Exception", "normalization")

\* --------------------------------------------------------------- analysis
\* The file holds an unresolved merge; a build keeps one side of it.
Sides == {"HEAD", "theirs"}

\* _rfft: the length of the last axis of the result, or the error of the
\* final reshape when the FFT has fewer than l + 1 bins
_rfft(res_alpha, l) ==
    IF l > res_alpha \div 2 THEN Raise("TypeError", "reshape") ELSE Return(2 * l + 1)

\* rfft: no such name is defined or imported in s2grid.py
rfft(res_alpha, l) == Raise("NameError", "rfft")

\* the "integrate over alpha" step of from_s2grid, lines 503-514, on one side
\* of the merge: the length of the last axis of int_a, or the error
integrate_alpha(side, lmax, res_alpha, fft) ==
    IF fft
    THEN IF side = "HEAD" /\ _rfft(res_alpha, lmax).exc # "none"
         THEN _rfft(res_alpha, lmax)
         ELSE rfft(res_alpha, lmax)
    ELSE Return(2 * lmax + 1)

\* from_s2grid, lines 467-476: the largest requested degree, or the error
from_s2grid_parities(x_, irs) ==
    IF ~all_mul_one(regroup(irs)) THEN Raise("ValueError", "multiplicities")
    ELSE
    LET chk == _check_parities(irs, x_.p_val, x_.p_arg)
    IN  IF chk.exc # "none" THEN chk
        ELSE IF ls(irs) = <<>> THEN Raise("ValueError", "max")
        ELSE Return(seq_max(ls(irs)))

\* from_s2grid, lines 481-520, for the largest degree lmax: the irreps tagging
\* the returned coefficients, or the error; one outcome per side of the merge
from_s2grid_coeffs(x_, irs, lmax, normalization, fft) ==
    LET grid == _s2grid(x_.res_beta, x_.res_alpha, x_.quadrature)
    IN  IF grid.exc # "none" THEN {grid}
        ELSE IF normalization \notin {"component", "norm", "integral"}
        THEN {Raise("Exception", "normalization")}
        ELSE {LET int_a == integrate_alpha(side, lmax, x_.res_alpha, fft)
              IN  IF int_a.exc # "none" THEN int_a ELSE Return(irs) :
              side \in Sides}

\* -------------------------------------------------------------- synthesis
\* second parity block of to_s2grid, lines 605-645
_extract_element(s) == IF s = {} THEN {None} ELSE s

\* a mapping that takes the parity of the odd degrees for p_arg
_compute_parities_odd_as_p_arg(p_even, p_odd) == <<p_even, p_odd>>

_compute_parities(p_even, p_odd) ==
    <<p_even, IF p_even = None \/ p_odd = None THEN None ELSE p_even * p_odd>>

_check_consistency(provided_val, computed_val, computed_p_val) ==
    IF (provided_val = None) # (computed_val = None)
    THEN Return(IF provided_val # None THEN provided_val ELSE computed_p_val)
    ELSE IF provided_val = None THEN Raise("ValueError", "could not compute")
    ELSE IF provided_val # computed_val THEN Raise("ValueError", "inconsistent")
    ELSE Return(provided_val)

\* the outcomes of the block for a resolved pair (pv, pa): a set, since
\* _extract_element takes whichever element the set iteration yields first
second_block(irs, pv, pa) ==
    {LET computed == _compute_parities(p_even, p_odd)
         v == _check_consistency(pv, computed[1], computed[1])
         a == _check_consistency(pa, computed[2], computed[1])
     IN  IF v.exc # "none" THEN v
         ELSE IF a.exc # "none" THEN a
         ELSE Return(<<v.val, a.val>>) :
     p_even \in _extract_element(parity_set(irs, 0)),
     p_odd \in _extract_element(parity_set(irs, 1))}

\* a synthesis that hands a lone p_val or p_arg on to the resolver
to_s2grid_parities_one_sided(irs, pv, pa) ==
    LET coeffs == regroup(irs)
    IN  IF ls(coeffs) = <<>> THEN Raise("IndexError", "ls")
        ELSE IF ~all_mul_one(coeffs) THEN Raise("ValueError", "multiplicities")
        ELSE
        LET chk == _check_parities(coeffs, pv, pa)
        IN  IF chk.exc # "none" THEN chk
            ELSE IF chk.val[1] = None \/ chk.val[2] = None
            THEN Raise("ValueError", "undetermined")
            ELSE Return([irreps |-> coeffs, lmax |-> ls(coeffs)[Len(ls(coeffs))],
                         p_val |-> chk.val[1], p_arg |-> chk.val[2]])

\* a synthesis that trusts a supplied pair and resolves only when none is given
to_s2grid_parities_trusting(irs, pv, pa) ==
    LET coeffs == regroup(irs)
    IN  IF ls(coeffs) = <<>> THEN Raise("IndexError", "ls")
        ELSE IF ~all_mul_one(coeffs) THEN Raise("ValueError", "multiplicities")
        ELSE IF (pv # None) # (pa # None) THEN Raise("ValueError", "both or none")
        ELSE
        LET chk == IF pv # None THEN Return(<<pv, pa>>) ELSE _check_parities(coeffs, pv, pa)
        IN  IF chk.exc # "none" THEN chk
            ELSE IF chk.val[1] = None \/ chk.val[2] = None
            THEN Raise("ValueError", "undetermined")
            ELSE Return([irreps |-> coeffs, lmax |-> ls(coeffs)[Len(ls(coeffs))],
                         p_val |-> chk.val[1], p_arg |-> chk.val[2]])

\* to_s2grid, lines 568-580: the regrouped irreps, their last degree and the
\* resolved parity pair, or the error
to_s2grid_parities(irs, pv, pa) ==
    LET coeffs == regroup(irs)
    IN  IF ls(coeffs) = <<>> THEN Raise("IndexError", "ls")
        ELSE IF ~all_mul_one(coeffs) THEN Raise("ValueError", "multiplicities")
        ELSE IF (pv # None) # (pa # None) THEN Raise("ValueError", "both or none")
        ELSE
        LET chk == _check_parities(coeffs, pv, pa)
        IN  IF chk.exc # "none" THEN chk
            ELSE IF chk.val[1] = None \/ chk.val[2] = None
            THEN Raise("ValueError", "undetermined")
            ELSE Return([irreps |-> coeffs, lmax |-> ls(coeffs)[Len(ls(coeffs))],
                         p_val |-> chk.val[1], p_arg |-> chk.val[2]])

\* _irfft on an array whose last axis has n = 2l + 1 entries: the length of
\* the last axis of the result, or the failed assertion
_irfft(n, res) ==
    IF res % 2 # 1 THEN Raise("AssertionError", "res % 2 == 1") ELSE Return(res)

\* a synthesis that hands every res_alpha to _irfft
to_s2grid_signal_unguarded(lmax, res_beta, res_alpha, normalization, quadrature, fft) ==
    LET grid == _s2grid(res_beta, res_alpha, quadrature)
        n == _normalization(lmax, normalization)
    IN  IF grid.exc # "none" THEN grid
        ELSE IF n.exc # "none" THEN n
        ELSE IF fft
        THEN LET signal == _irfft(2 * lmax + 1, res_alpha)
             IN  IF signal.exc # "none" THEN signal ELSE Return(<<res_beta, signal.val>>)
        ELSE Return(<<res_beta, res_alpha>>)

\* to_s2grid, lines 582-601: the basis on the grid, the normalization and the
\* Fourier step: the shape of the grid values, or the error
to_s2grid_signal(lmax, res_beta, res_alpha, normalization, quadrature, fft) ==
    LET grid == _s2grid(res_beta, res_alpha, quadrature)
        n == _normalization(lmax, normalization)
    IN  IF grid.exc # "none" THEN grid
        ELSE IF n.exc # "none" THEN n
        ELSE IF fft
        THEN IF res_alpha % 2 = 0 THEN Raise("ValueError", "res_alpha must be odd for fft")
             ELSE LET signal == _irfft(2 * lmax + 1, res_alpha)
                  IN  IF signal.exc # "none" THEN signal ELSE Return(<<res_beta, signal.val>>)
        ELSE Return(<<res_beta, res_alpha>>)

\* lines 603-645: the HEAD side of the merge is empty, the other side is the block
parity_block(side, irs, pv, pa) ==
    IF side = "HEAD" THEN {Return(<<pv, pa>>)} ELSE second_block(irs, pv, pa)

\* to_s2grid, lines 603-646, after the parities r and the grid values g were
\* computed: the set of outcomes, over the sides of the merge and the element
\* choices of the second block
to_s2grid_result(r, g, quadrature) ==
    IF g.exc # "none" THEN {g}
    ELSE {IF b.exc # "none" THEN b
          ELSE SphericalSignal(g.val[1], g.val[2], quadrature, b.val[1], b.val[2]) :
          b \in UNION {parity_block(side, r.val.irreps, r.val.p_val, r.val.p_arg) :
                       side \in Sides}}

\* to_s2grid as a whole: one outcome per side of the merge
to_s2grid(irs, res_beta, res_alpha, normalization, quadrature, fft, pv, pa) ==
    LET r == to_s2grid_parities(irs, pv, pa)
    IN  IF r.exc # "none" THEN {r}
        ELSE to_s2grid_result(
                 r,
                 to_s2grid_signal(r.val.lmax, res_beta, res_alpha, normalization, quadrature, fft),
                 quadrature)

\* from_s2grid as a whole, lmax_in left at its default
from_s2grid(x_, irs, normalization, fft) ==
    LET r == from_s2grid_parities(x_, irs)
    IN  IF r.exc # "none" THEN {r} ELSE from_s2grid_coeffs(x_, irs, r.val, normalization, fft)

\* ---------------------------------------------------------------- rotation
\* b ** e
RECURSIVE pow(_, _)
pow(b, e) == IF e = 0 THEN 1 ELSE b * pow(b, e - 1)

s2_irreps(lmax, pv, pa) ==
    [i \in 1..(lmax + 1) |-> [mul |-> 1, l |-> i - 1, p |-> pv * pow(pa, i - 1)]]

TransformTypes == {"angles", "matrix", "axis_angle", "quaternion"}

\* SphericalSignal._transform_by: analysis with the default arguments, the
\* rotation of the coefficients (which keeps their irreps), synthesis on the
\* signal's grid with the default arguments
_transform_by(self, transform_type, lmax) ==
    UNION {IF coeffs.exc # "none" THEN {coeffs}
           ELSE IF transform_type \notin TransformTypes
           THEN {Raise("KeyError", "transform_type")}
           ELSE to_s2grid(coeffs.val, self.res_beta, self.res_alpha, "component",
                          self.quadrature, TRUE, self.p_val, self.p_arg) :
           coeffs \in from_s2grid(self, s2_irreps(lmax, self.p_val, self.p_arg),
                                  "component", TRUE)}

\* SphericalSignal.resample: analysis with the default arguments, synthesis on
\* the requested grid with the default arguments; the quadrature "None" (no
\* quadrature given) means the signal's own
resample(self, res_beta, res_alpha, lmax, quadrature) ==
    LET q == IF quadrature = "None" THEN self.quadrature ELSE quadrature
    IN  UNION {IF coeffs.exc # "none" THEN {coeffs}
               ELSE to_s2grid(coeffs.val, res_beta, res_alpha, "component", q, TRUE,
                              self.p_val, self.p_arg) :
               coeffs \in from_s2grid(self, s2_irreps(lmax, self.p_val, self.p_arg),
                                      "component", TRUE)}

\* an apply that hands the signal's parities to the constructor
apply_keeping_parity(self) ==
    SphericalSignal(self.res_beta, self.res_alpha, self.quadrature, self.p_val, self.p_arg)

\* SphericalSignal.apply with a pointwise func: the constructor is called
\* without p_val and p_arg, which then take their defaults 1 and -1
apply(self) ==
    SphericalSignal(self.res_beta, self.res_alpha, self.quadrature, 1, -1)

\* the flatten function registered with jax.tree_util: children and aux data
tree_flatten(self) ==
    <<<<grid_resolution(self)>>, <<self.quadrature, self.p_val, self.p_arg>>>>

\* the unflatten function registered with jax.tree_util
tree_unflatten(aux, grid_values) ==
    SphericalSignal(grid_values[1][1], grid_values[1][2], aux[1], aux[2], aux[3])

\* ----------------------------------------------------------------- helpers
\* np.eye
eye(r, c) == IF r = c THEN 1 ELSE 0

\* sum(2 * l + 1 for l in ls)
RECURSIVE dim_of(_)
dim_of(ls_) == IF ls_ = <<>> THEN 0 ELSE 2 * ls_[1] + 1 + dim_of(Tail(ls_))

\* a layout that starts every block at the first column
m_slice_left(lmax, l) == 0..(2 * l)

\* the slice lmax - l : lmax + l + 1
m_slice(lmax, l) == (lmax - l)..(lmax + l)

\* the loop of _expand_matrix from the k-th degree on, i being the next free
\* flattened index
RECURSIVE expand_loop(_, _, _, _, _)
expand_loop(m, ls_, lmax, k, i) ==
    IF k > Len(ls_) THEN m
    ELSE LET l == ls_[k]
             rows == m_slice(lmax, l)
             first == CHOOSE r \in rows : \A q \in rows : r <= q
         IN  expand_loop(
                 [t \in DOMAIN m |->
                     IF t[1] = l /\ t[2] \in rows /\ t[3] \in i..(i + 2 * l)
                     THEN eye(t[2] - first, t[3] - i)
                     ELSE m[t]],
                 ls_, lmax, k + 1, i + 2 * l + 1)

\* _expand_matrix: the array with its shape, or the error of max(())
_expand_matrix(ls_) ==
    IF ls_ = <<>> THEN Raise("ValueError", "max")
    ELSE LET lmax == seq_max(ls_)
             zeros == [t \in (0..lmax) \X (0..(2 * lmax)) \X (0..(dim_of(ls_) - 1)) |-> 0]
         IN  Return([shape |-> <<lmax + 1, 2 * lmax + 1, dim_of(ls_)>>,
                     m |-> expand_loop(zeros, ls_, lmax, 1, 0)])

\* a rollout that writes the slot of the non-negative order only
mirror_slot_same(i_mid, i) == i_mid + i

\* the slot i_mid - i
mirror_slot(i_mid, i) == i_mid - i

\* the loops of _rollout_sh from degree l and index i on
RECURSIVE rollout_loop(_, _, _, _, _)
rollout_loop(m_full, m, lmax, l, i) ==
    IF l > lmax THEN m_full
    ELSE IF i > l THEN rollout_loop(m_full, m, lmax, l + 1, 0)
    ELSE LET i_mid == l * l + l
             v == m[(l * (l + 1)) \div 2 + i]
             set_plus == [m_full EXCEPT ![i_mid + i] = v]
         IN  rollout_loop([set_plus EXCEPT ![mirror_slot(i_mid, i)] = v], m, lmax, l, i + 1)

\* _rollout_sh on an array whose last axis is m (indexed from 0)
_rollout_sh(m, lmax) ==
    IF Cardinality(DOMAIN m) # ((lmax + 1) * (lmax + 2)) \div 2
    THEN Raise("AssertionError", "m.shape[-1]")
    ELSE Return(rollout_loop([k \in 0..((lmax + 1) * (lmax + 1) - 1) |-> 0], m, lmax, 0, 0))

\* -------------------------------------------------------- point evaluation
Ir1e == <<[mul |-> 1, l |-> 1, p |-> 1]>>

Ir1o == <<[mul |-> 1, l |-> 1, p |-> -1]>>

Ir0e == <<[mul |-> 1, l |-> 0, p |-> 1]>>

Ir0o == <<[mul |-> 1, l |-> 0, p |-> -1]>>

\* batch shapes: no batch axis, or one axis of 1..MaxBatch entries
Shapes == {<<>>} \cup {<<n>> : n \in 1..MaxBatch}

\* the number of entries of an array of the given shape
RECURSIVE prod(_)
prod(shp) == IF shp = <<>> THEN 1 ELSE shp[1] * prod(Tail(shp))

\* a query point of shape (*shape, 3): an IrrepsArray with its irreps, or a bare array
Points ==
    [is_irreps_array : BOOLEAN,
     irreps : {Ir1e, Ir1o, Ir0e, <<[mul |-> 2, l |-> 1, p |-> -1]>>, Ir1o \o Ir1e},
     shape : Shapes]

\* jnp.einsum("ai,bi->ab", sh.array, coeffs.array): entry [a, b] contracts row a
\* of sh (the basis at direction a) with row b of coeffs (coefficient set b)
einsum_ai_bi_ab(sh_rows, coeffs_rows) ==
    [a \in 0..(sh_rows - 1), b \in 0..(coeffs_rows - 1) |-> [point |-> a, coeffs |-> b]]

\* reshape of an [n_a, n_b] array: the entries in row-major order, which the
\* new shape indexes in row-major order again
reshape(array, n_a, n_b, shp) ==
    [shape |-> shp, flat |-> [k \in 0..(n_a * n_b - 1) |-> array[k \div n_b, k % n_b]]]

\* e3nn.IrrepsArray(irreps, array)
IrrepsArray(irs, array) == [irreps |-> irs, shape |-> array.shape, flat |-> array.flat]

\* a point evaluation that tags every value as even
point_tag_even(pv) == Ir0e

\* {1: "0e", -1: "0o"}[p_val]
point_tag(pv) == IF pv = 1 THEN Ir0e ELSE Ir0o

\* to_s2point, lines 768-779: the returned IrrepsArray
to_s2point_value(pv, shape1, shape2) ==
    IrrepsArray(point_tag(pv),
                reshape(einsum_ai_bi_ab(prod(shape2), prod(shape1)),
                        prod(shape2), prod(shape1), shape1 \o shape2 \o <<1>>))

\* a point evaluation that takes a direction of any irreps
point_irreps_any(point) == TRUE

\* point.irreps in ["1e", "1o"]
point_irreps_ok(point) == point.irreps \in {Ir1e, Ir1o}

\* to_s2point (the later definition, lines 736-779), lines 753-756: the
\* regrouped irreps of the coefficients, or the error
to_s2point_coeffs(irs) ==
    LET coeffs == regroup(irs)
    IN  IF ~all_mul_one(coeffs) THEN Raise("ValueError", "multiplicities")
        ELSE Return(coeffs)

\* to_s2point, lines 758-779, on regrouped coefficients of shape
\* (*shape1, irreps.dim): the returned IrrepsArray, or the error
to_s2point_at(coeffs, shape1, point, normalization) ==
    IF ~point.is_irreps_array THEN Raise("TypeError", "point")
    ELSE IF ~point_irreps_ok(point) THEN Raise("ValueError", "point irreps")
    ELSE
    LET pa == point.irreps[1].p
        chk == _check_parities(coeffs, None, pa)
    IN  IF chk.exc # "none" THEN chk
        ELSE IF ls(coeffs) = <<>> THEN Raise("ValueError", "lmax")
        ELSE
        LET n == _normalization(seq_max(ls(coeffs)), normalization)
        IN  IF n.exc # "none" THEN n
            ELSE IF chk.val[1] \notin {1, -1} THEN Raise("KeyError", "p_val")
            ELSE Return(to_s2point_value(chk.val[1], shape1, point.shape))

\* ------------------------------------------------------------ peak finding
\* scipy.signal.find_peaks(v) without conditions, from the 0-based index i on:
\* the 0-based indices of the samples that are higher than both neighbours, a
\* flat run with lower samples on both sides counting once, at its middle
\* (rounded down); the first and the last sample are never peaks
RECURSIVE plateau_end(_, _, _)
plateau_end(v, i, i_ahead) ==
    IF i_ahead < Len(v) - 1 /\ v[i_ahead + 1] = v[i + 1]
    THEN plateau_end(v, i, i_ahead + 1)
    ELSE i_ahead

RECURSIVE find_peaks_from(_, _)
find_peaks_from(v, i) ==
    IF i >= Len(v) - 1 THEN {}
    ELSE IF v[i] < v[i + 1]
    THEN LET i_ahead == plateau_end(v, i, i + 1)
         IN  IF v[i_ahead + 1] < v[i + 1]
             THEN {(i + i_ahead - 1) \div 2} \cup find_peaks_from(v, i_ahead + 1)
             ELSE find_peaks_from(v, i + 1)
    ELSE find_peaks_from(v, i + 1)

find_peaks(v) == find_peaks_from(v, 1)

\* x[i, :] and x[:, j] of a grid given as the sequence of its rows, i and j 0-based
row(x_, i) == x_[i + 1]

column(x_, j) == [i \in 1..Len(x_) |-> x_[i][j + 1]]

\* the points that either pass found
intersection_or_union(iii, jjj) == iii \cup jjj

\* set(iii).intersection(set(jjj))
intersection(iii, jjj) == iii \cap jjj

\* list(s) of a set s: its elements once each, in the set's iteration order,
\* which is any order
list(s) ==
    {f \in [1..Cardinality(s) -> s] : \A a, b \in 1..Cardinality(s) : f[a] = f[b] => a = b}

\* SphericalSignal._find_peaks_2d: the lists it may return
_find_peaks_2d(x_) ==
    LET iii == UNION {{<<i, j>> : j \in find_peaks(row(x_, i))} : i \in 0..(Len(x_) - 1)}
        jjj == UNION {{<<i, j>> : i \in find_peaks(column(x_, j))} :
                      j \in 0..(Len(x_[1]) - 1)}
    IN  {Return(l) : l \in list(intersection(iii, jjj))}

\* ------------------------------------------------------------------ state
VARIABLES
    pc,      \* what the next call may be / what the last call was
    irreps,  \* the Irreps at hand: the resolver's input, the coefficients' irreps,
             \* or the irreps requested from analysis
    p_val,   \* the supplied (optional) value parity
    p_arg,   \* the supplied (optional) argument parity
    x,       \* the signal at hand
    other,   \* the second operand of an arithmetic operation
    call,    \* the last call's name and keyword arguments
    ret,     \* the last call's outcome
    shape,   \* the batch shape of the coefficients at hand
    arg      \* the input of a helper function

vars == <<pc, irreps, p_val, p_arg, x, other, call, ret, shape, arg>>

NoRet == [exc |-> "pending"]

NoCall == [op |-> "none"]

\* ------------------------------------------------------------ initial states
InitResolver ==
    /\ pc = "resolver"
    /\ irreps \in IrrepsSet
    /\ p_val \in OptParities
    /\ p_arg \in OptParities
    /\ x = NoSignal
    /\ other = NoSignal
    /\ shape = <<>>
    /\ arg = None

InitSignals ==
    /\ pc = "signals"
    /\ irreps = <<>>
    /\ p_val = None
    /\ p_arg = None
    /\ x \in Signals
    /\ other \in Signals
    /\ shape = <<>>
    /\ arg = None

InitCoeffs ==
    /\ pc = "coeffs"
    /\ irreps \in IrrepsSet
    /\ p_val \in OptParities
    /\ p_arg \in OptParities
    /\ x = NoSignal
    /\ other = NoSignal
    /\ shape = <<>>
    /\ arg = None

InitSignal ==
    /\ pc = "signal"
    /\ irreps \in IrrepsSet
    /\ p_val = None
    /\ p_arg = None
    /\ x \in Signals
    /\ other = NoSignal
    /\ shape = <<>>
    /\ arg = None

\* coefficients with a batch shape, for point evaluation
InitBatch ==
    /\ pc = "coeffs"
    /\ irreps \in IrrepsSet
    /\ p_val = None
    /\ p_arg = None
    /\ x = NoSignal
    /\ other = NoSignal
    /\ shape \in Shapes
    /\ arg = None

\* the arguments of _s2grid
GridArgs ==
    [res_beta : 0..(MaxRes + 1), res_alpha : 0..MaxRes, quadrature : Quadratures \cup {"other"}]

InitGrid ==
    /\ pc = "grid"
    /\ irreps = <<>>
    /\ p_val = None
    /\ p_arg = None
    /\ x = NoSignal
    /\ other = NoSignal
    /\ shape = <<>>
    /\ arg \in GridArgs

\* lists of degrees
DegreeLists == UNION {[1..n -> 0..MaxL] : n \in 0..(MaxL + 1)}

InitLs ==
    /\ pc = "ls"
    /\ irreps = <<>>
    /\ p_val = None
    /\ p_arg = None
    /\ x = NoSignal
    /\ other = NoSignal
    /\ shape = <<>>
    /\ arg \in DegreeLists

\* the arguments of _rollout_sh: an array of non-zero entries and lmax
RolloutArgs ==
    [m : UNION {[0..(n - 1) -> {1, 2}] : n \in 0..(((MaxL + 1) * (MaxL + 2)) \div 2)},
     lmax : 0..MaxL]

InitRollout ==
    /\ pc = "compact"
    /\ irreps = <<>>
    /\ p_val = None
    /\ p_arg = None
    /\ x = NoSignal
    /\ other = NoSignal
    /\ shape = <<>>
    /\ arg \in RolloutArgs

\* the sample values of the grids searched for peaks
Samples == {0, 1}

\* the grids of at most MaxCells samples
Grids ==
    UNION {[1..rc[1] -> [1..rc[2] -> Samples]] :
           rc \in {d \in (1..MaxCells) \X (1..MaxCells) : d[1] * d[2] <= MaxCells}}

InitPeaks ==
    /\ pc = "grid2d"
    /\ irreps = <<>>
    /\ p_val = None
    /\ p_arg = None
    /\ x = NoSignal
    /\ other = NoSignal
    /\ shape = <<>>
    /\ arg \in Grids

\* no signal yet: the caller is about to construct one
InitNew ==
    /\ pc = "new"
    /\ irreps = <<>>
    /\ p_val = None
    /\ p_arg = None
    /\ x = NoSignal
    /\ other = NoSignal
    /\ shape = <<>>
    /\ arg = None

Init ==
    /\ \/ InitResolver
       \/ InitPeaks
       \/ InitNew
       \/ InitRollout
       \/ InitSignals
       \/ InitCoeffs
       \/ InitSignal
       \/ InitBatch
       \/ InitGrid
       \/ InitLs
    /\ call = NoCall
    /\ ret = NoRet

\* ------------------------------------------------------------------ actions
CheckParities ==
    /\ pc = "resolver"
    /\ ret' = _check_parities(irreps, p_val, p_arg)
    /\ call' = [op |-> "_check_parities"]
    /\ pc' = "resolved"
    /\ UNCHANGED <<irreps, p_val, p_arg, x, other, shape, arg>>

Add ==
    /\ pc = "signals"
    /\ ret' = __add__(x, other)
    /\ call' = [op |-> "__add__"]
    /\ pc' = "arith"
    /\ UNCHANGED <<irreps, p_val, p_arg, x, other, shape, arg>>

Sub ==
    /\ pc = "signals"
    /\ ret' = __sub__(x, other)
    /\ call' = [op |-> "__sub__"]
    /\ pc' = "arith"
    /\ UNCHANGED <<irreps, p_val, p_arg, x, other, shape, arg>>

Mul ==
    /\ pc = "signals"
    /\ ret' = __mul__(x)
    /\ call' = [op |-> "__mul__"]
    /\ pc' = "arith"
    /\ UNCHANGED <<irreps, p_val, p_arg, x, other, shape, arg>>

RMul ==
    /\ pc = "signals"
    /\ ret' = __rmul__(x)
    /\ call' = [op |-> "__rmul__"]
    /\ pc' = "arith"
    /\ UNCHANGED <<irreps, p_val, p_arg, x, other, shape, arg>>

ToS2Grid ==
    /\ pc = "coeffs"
    /\ \E r \in {to_s2grid_parities(irreps, p_val, p_arg)} :
           \E res_beta \in Resolutions, res_alpha \in Resolutions,
              normalization \in Normalizations \cup {"other"},
              quadrature \in Quadratures \cup {"other"},
              fft \in BOOLEAN :
              \E o \in IF r.exc # "none" THEN {r}
                       ELSE to_s2grid_result(
                                r,
                                to_s2grid_signal(r.val.lmax, res_beta, res_alpha,
                                                 normalization, quadrature, fft),
                                quadrature) :
                 /\ ret' = o
                 /\ call' = [op |-> "to_s2grid", res_beta |-> res_beta,
                             res_alpha |-> res_alpha, normalization |-> normalization,
                             quadrature |-> quadrature, fft |-> fft]
                 /\ x' = IF o.exc = "none" THEN o.val ELSE NoSignal
                 /\ pc' = IF o.exc = "none" THEN "synthesized" ELSE "done"
    /\ UNCHANGED <<irreps, p_val, p_arg, other, shape, arg>>

FromS2Grid ==
    /\ pc \in {"signal", "synthesized"}
    /\ \E r \in {from_s2grid_parities(x, irreps)} :
          \E normalization \in Normalizations \cup {"other"}, fft \in BOOLEAN :
             /\ ret' \in IF r.exc # "none" THEN {r}
                         ELSE from_s2grid_coeffs(x, irreps, r.val, normalization, fft)
             /\ call' = [op |-> "from_s2grid", normalization |-> normalization, fft |-> fft]
    /\ pc' = IF pc = "synthesized" THEN "roundtrip" ELSE "analysed"
    /\ UNCHANGED <<irreps, p_val, p_arg, x, other, shape, arg>>

ToS2Point ==
    /\ pc = "coeffs"
    /\ p_val = None
    /\ p_arg = None
    /\ \E r \in {to_s2point_coeffs(irreps)} :
          \E point \in Points, normalization \in Normalizations \cup {"other"} :
             /\ ret' = IF r.exc # "none" THEN r
                       ELSE to_s2point_at(r.val, shape, point, normalization)
             /\ call' = [op |-> "to_s2point", point |-> point, normalization |-> normalization]
    /\ pc' = "evaluated"
    /\ UNCHANGED <<irreps, p_val, p_arg, x, other, shape, arg>>

\* transform_by_angles / _matrix / _axis_angle / _quaternion
TransformBy ==
    /\ pc = "signals"
    /\ \E transform_type \in TransformTypes, lmax \in 0..MaxL :
          /\ ret' \in _transform_by(x, transform_type, lmax)
          /\ call' = [op |-> "_transform_by", transform_type |-> transform_type, lmax |-> lmax]
    /\ pc' = "transformed"
    /\ UNCHANGED <<irreps, p_val, p_arg, x, other, shape, arg>>

\* SphericalSignal(grid_values, quadrature, p_val, p_arg), called directly
Construct ==
    /\ pc \in {"new", "signals"}
    /\ \E res_beta \in Resolutions, res_alpha \in Resolutions,
          quadrature \in Quadratures \cup {"other"},
          pv \in OptParities \cup {2}, pa \in OptParities \cup {2} :
          /\ ret' = SphericalSignal(res_beta, res_alpha, quadrature, pv, pa)
          /\ call' = [op |-> "__init__", quadrature |-> quadrature, p_val |-> pv, p_arg |-> pa]
    /\ pc' = "constructed"
    /\ UNCHANGED <<irreps, p_val, p_arg, x, other, shape, arg>>

Apply ==
    /\ pc = "signals"
    /\ ret' = apply(x)
    /\ call' = [op |-> "apply"]
    /\ pc' = "applied"
    /\ UNCHANGED <<irreps, p_val, p_arg, x, other, shape, arg>>

Resample ==
    /\ pc = "signals"
    /\ \E res_beta \in Resolutions, res_alpha \in Resolutions, lmax \in 0..MaxL,
          quadrature \in Quadratures \cup {"None", "other"} :
          /\ ret' \in resample(x, res_beta, res_alpha, lmax, quadrature)
          /\ call' = [op |-> "resample", res_beta |-> res_beta, res_alpha |-> res_alpha,
                      lmax |-> lmax, quadrature |-> quadrature]
    /\ pc' = "resampled"
    /\ UNCHANGED <<irreps, p_val, p_arg, x, other, shape, arg>>

\* jax.tree_util.tree_unflatten of the flattened signal
Unflatten ==
    /\ pc = "signals"
    /\ ret' = tree_unflatten(tree_flatten(x)[2], tree_flatten(x)[1])
    /\ call' = [op |-> "tree_unflatten"]
    /\ pc' = "unflattened"
    /\ UNCHANGED <<irreps, p_val, p_arg, x, other, shape, arg>>

\* the caller keeps the signal that was returned and uses it as the first or
\* the second operand of the operations that follow
Keep ==
    /\ pc \in {"constructed", "arith", "applied", "resampled", "unflattened",
               "transformed", "synthesized"}
    /\ ret.exc = "none"
    /\ \E slot \in {"x", "other"} :
          /\ x' = IF slot = "x" \/ x = NoSignal \/ pc = "synthesized" THEN ret.val ELSE x
          /\ other' = IF slot = "other" \/ other = NoSignal THEN ret.val ELSE other
    /\ irreps' = <<>>
    /\ p_val' = None
    /\ p_arg' = None
    /\ pc' = "signals"
    /\ UNCHANGED <<call, ret, shape, arg>>

FindPeaks2d ==
    /\ pc = "grid2d"
    /\ ret' \in _find_peaks_2d(arg)
    /\ call' = [op |-> "_find_peaks_2d"]
    /\ pc' = "peaks"
    /\ UNCHANGED <<irreps, p_val, p_arg, x, other, shape, arg>>

ExpandMatrix ==
    /\ pc = "ls"
    /\ ret' = _expand_matrix(arg)
    /\ call' = [op |-> "_expand_matrix"]
    /\ pc' = "expanded"
    /\ UNCHANGED <<irreps, p_val, p_arg, x, other, shape, arg>>

RolloutSh ==
    /\ pc = "compact"
    /\ ret' = _rollout_sh(arg.m, arg.lmax)
    /\ call' = [op |-> "_rollout_sh"]
    /\ pc' = "rolled"
    /\ UNCHANGED <<irreps, p_val, p_arg, x, other, shape, arg>>

S2Grid ==
    /\ pc = "grid"
    /\ ret' = s2grid(arg.res_beta, arg.res_alpha, arg.quadrature)
    /\ call' = [op |-> "_s2grid"]
    /\ pc' = "gridded"
    /\ UNCHANGED <<irreps, p_val, p_arg, x, other, shape, arg>>

Next ==
    \/ FindPeaks2d
    \/ Construct
    \/ Apply
    \/ Resample
    \/ Unflatten
    \/ Keep
    \/ RolloutSh
    \/ ExpandMatrix
    \/ TransformBy
    \/ S2Grid
    \/ CheckParities
    \/ Add
    \/ Sub
    \/ Mul
    \/ RMul
    \/ ToS2Grid
    \/ FromS2Grid
    \/ ToS2Point

Spec == Init /\ [][Next]_vars

\* the life of signals: construction, synthesis, and every operation on the
\* signals that earlier operations returned
InitL == (InitNew \/ InitCoeffs) /\ call = NoCall /\ ret = NoRet

NextLife ==
    \/ Construct
    \/ ToS2Grid
    \/ Keep
    \/ Mul
    \/ RMul
    \/ Add
    \/ Sub
    \/ Apply
    \/ Resample
    \/ TransformBy
    \/ Unflatten

SpecLife == InitL /\ [][NextLife]_vars

\* the resolver alone
\* peak finding on a two-dimensional grid
InitK == InitPeaks /\ call = NoCall /\ ret = NoRet

NextPeaks == FindPeaks2d

SpecPeaks == InitK /\ [][NextPeaks]_vars

InitR == InitResolver /\ call = NoCall /\ ret = NoRet

NextResolver == CheckParities

SpecResolver == InitR /\ [][NextResolver]_vars

\* signal arithmetic alone
InitA == InitSignals /\ call = NoCall /\ ret = NoRet

NextArith == Add \/ Sub \/ Mul \/ RMul

SpecArith == InitA /\ [][NextArith]_vars

\* the methods of a signal
NextSignal == Add \/ Sub \/ Mul \/ RMul \/ TransformBy

SpecSignal == InitA /\ [][NextSignal]_vars

\* the resolver and analysis, which calls it with the signal's pair
InitRS == (InitResolver \/ InitSignal) /\ call = NoCall /\ ret = NoRet

NextAnalysis == CheckParities \/ FromS2Grid

SpecAnalysis == InitRS /\ [][NextAnalysis]_vars

\* the three transforms
InitT == (InitCoeffs \/ InitSignal) /\ call = NoCall /\ ret = NoRet

NextTransform == ToS2Grid \/ FromS2Grid \/ ToS2Point

SpecTransform == InitT /\ [][NextTransform]_vars

\* the helper functions
InitH == (InitGrid \/ InitLs \/ InitRollout) /\ call = NoCall /\ ret = NoRet

NextHelpers == S2Grid \/ ExpandMatrix \/ RolloutSh

SpecHelpers == InitH /\ [][NextHelpers]_vars

\* point evaluation of batched coefficients at batched directions
InitP == InitBatch /\ call = NoCall /\ ret = NoRet

NextPoint == ToS2Point

SpecPoint == InitP /\ [][NextPoint]_vars

\* ================================================================ properties
\* b ** e for e >= 0
RECURSIVE Pow(_, _)
Pow(b, e) == IF e = 0 THEN 1 ELSE b * Pow(b, e - 1)

\* some irrep of the list has a degree of class r (0: even, 1: odd)
Present(irs, r) == \E i \in DOMAIN irs : irs[i].l % 2 = r

\* the irreps of degree class r carry both parities
Mixed(irs, r) ==
    \E i, j \in DOMAIN irs :
        /\ irs[i].l % 2 = r
        /\ irs[j].l % 2 = r
        /\ irs[i].p # irs[j].p

\* every irrep of degree class r has parity q
AllHave(irs, r, q) == \A i \in DOMAIN irs : irs[i].l % 2 = r => irs[i].p = q

\* the parity carried by the irreps of degree class r (when Present and not Mixed)
Observed(irs, r) == CHOOSE q \in Parities : \E i \in DOMAIN irs : irs[i].l % 2 = r /\ irs[i].p = q

Resolved == pc = "resolved"

Returned == ret.exc = "none"

\* C1: whenever _check_parities returns a pair with both elements determinate,
\* every irrep (l, p) of the list has p = p_val * p_arg^l, and a supplied p_val
\* or p_arg that comes back determinate comes back unchanged.
C1_ParitySoundness ==
    (Resolved /\ Returned) =>
        /\ (ret.val[1] # None /\ ret.val[2] # None) =>
               \A i \in DOMAIN irreps :
                   irreps[i].p = ret.val[1] * Pow(ret.val[2], irreps[i].l)
        /\ (p_val # None /\ ret.val[1] # None) => ret.val[1] = p_val
        /\ (p_arg # None /\ ret.val[2] # None) => ret.val[2] = p_arg

\* an odd-parity pair is derived from a list with an even and an odd degree
C1_Witness ==
    /\ Resolved
    /\ Returned
    /\ p_val = None
    /\ p_arg = None
    /\ Len(irreps) = 2
    /\ irreps[1].l = 2
    /\ irreps[1].p = -1
    /\ irreps[2].l = 1
    /\ ret.val = <<-1, -1>>

\* C2: the resolver raises, whatever p_val / p_arg are supplied, whenever the
\* even-degree irreps carry both parities or the odd-degree irreps do.
C2_MixedParitiesRaise ==
    (Resolved /\ (Mixed(irreps, 0) \/ Mixed(irreps, 1))) => ret.exc = "ValueError"

\* degree-2 irreps of both parities, nothing supplied
C2_Witness ==
    /\ Resolved
    /\ irreps = <<[mul |-> 1, l |-> 2, p |-> 1], [mul |-> 1, l |-> 2, p |-> -1]>>
    /\ p_val = None
    /\ p_arg = None
    /\ ret.exc = "ValueError"

\* C3: with both p_val and p_arg supplied the resolver succeeds exactly when the
\* even-degree irreps all have parity p_val and the odd-degree irreps all have
\* parity p_val * p_arg; it then returns the supplied pair, and otherwise raises;
\* analysis, which supplies the signal's pair, returns no coefficients then.
C3_BothSupplied ==
    /\ (Resolved /\ p_val # None /\ p_arg # None) =>
           /\ Returned <=> (AllHave(irreps, 0, p_val) /\ AllHave(irreps, 1, p_val * p_arg))
           /\ Returned => ret.val = <<p_val, p_arg>>
           /\ ~Returned => ret.exc = "ValueError"
    /\ (pc = "analysed"
        /\ ~(AllHave(irreps, 0, x.p_val) /\ AllHave(irreps, 1, x.p_val * x.p_arg))) =>
           ret.exc = "ValueError"

\* analysis of a (+1, -1) signal into 0e + 1e is refused by the resolver
C3_Witness ==
    /\ pc = "analysed"
    /\ x.p_val = 1
    /\ x.p_arg = -1
    /\ irreps = Ir0e \o Ir1e
    /\ ret = Raise("ValueError", "parities")

\* C4: with only p_val supplied: p_val is adopted when no even degree is
\* present; the resolver raises when an even-degree irrep has another parity;
\* on success it returns the supplied p_val, and p_arg = p_val * (odd parity)
\* when an odd degree is present, None otherwise.
C4_OnlyPVal ==
    (Resolved /\ p_val # None /\ p_arg = None) =>
        /\ (~Present(irreps, 0) /\ ~Mixed(irreps, 1)) => Returned
        /\ ~AllHave(irreps, 0, p_val) => ret.exc = "ValueError"
        /\ Returned =>
               /\ ret.val[1] = p_val
               /\ ret.val[2] = IF Present(irreps, 1)
                               THEN p_val * Observed(irreps, 1)
                               ELSE None

\* p_val = -1 is adopted for a list of odd degrees only
C4_Witness ==
    /\ Resolved
    /\ p_val = -1
    /\ p_arg = None
    /\ irreps = Ir1o
    /\ ret = Return(<<-1, 1>>)

\* C6: with only p_arg supplied: when exactly one degree class is observed the
\* other parity is derived as (known parity) * p_arg; when both are observed and
\* odd # even * p_arg the resolver raises; every success on a non-empty list
\* returns (even parity, p_arg), both determinate.
C6_OnlyPArg ==
    (Resolved /\ p_val = None /\ p_arg # None) =>
        /\ (Present(irreps, 0) /\ ~Present(irreps, 1) /\ ~Mixed(irreps, 0)) =>
               ret = Return(<<Observed(irreps, 0), p_arg>>)
        /\ (Present(irreps, 1) /\ ~Present(irreps, 0) /\ ~Mixed(irreps, 1)) =>
               ret = Return(<<Observed(irreps, 1) * p_arg, p_arg>>)
        /\ (Present(irreps, 0) /\ Present(irreps, 1)
            /\ ~Mixed(irreps, 0) /\ ~Mixed(irreps, 1)
            /\ Observed(irreps, 1) # Observed(irreps, 0) * p_arg) =>
               ret.exc = "ValueError"
        /\ (Returned /\ irreps # <<>>) =>
               /\ ret.val[1] \in Parities
               /\ ret.val[2] = p_arg
               /\ Present(irreps, 0) => ret.val[1] = Observed(irreps, 0)

\* the even-degree parity is derived from 1e and p_arg = -1
C6_Witness ==
    /\ Resolved
    /\ p_val = None
    /\ p_arg = -1
    /\ irreps = Ir1e
    /\ ret = Return(<<-1, -1>>)

\* C7: with nothing supplied the resolver returns (even parity, even parity *
\* odd parity) when both degree classes are present, (even parity, None) when
\* only even degrees are, (None, None) when only odd degrees are.
C7_NothingSupplied ==
    (Resolved /\ p_val = None /\ p_arg = None /\ ~Mixed(irreps, 0) /\ ~Mixed(irreps, 1)) =>
        ret = Return(
            IF Present(irreps, 0) /\ Present(irreps, 1)
            THEN <<Observed(irreps, 0), Observed(irreps, 0) * Observed(irreps, 1)>>
            ELSE IF Present(irreps, 0)
            THEN <<Observed(irreps, 0), None>>
            ELSE <<None, None>>)

\* odd degrees only: nothing is determined
C7_Witness ==
    /\ Resolved
    /\ p_val = None
    /\ p_arg = None
    /\ irreps = Ir1o
    /\ ret = Return(<<None, None>>)

\* C5 (as claimed): from_s2grid(to_s2grid(coeffs, ...), coeffs.irreps, same
\* normalization), with a valid normalization and analysis on its default
\* Fourier path (fft=True), returns coefficients tagged with coeffs.irreps.
C5_RoundTrip ==
    [][(/\ pc = "synthesized"
        /\ pc' = "roundtrip"
        /\ call'.normalization = call.normalization
        /\ call'.fft)
       => ret' = Return(irreps)]_vars

\* C8: to_s2grid without a parity override on irreps that lack the even or the
\* odd degrees raises and returns no signal; when to_s2grid returns, the
\* signal's p_val and p_arg are +1 or -1 and p = p_val * p_arg^l for every irrep
\* of the coefficients.
C8_SynthesisParity ==
    (call.op = "to_s2grid") =>
        /\ (p_val = None /\ p_arg = None
            /\ ~(Present(irreps, 0) /\ Present(irreps, 1))) =>
               (~Returned /\ x = NoSignal)
        /\ Returned =>
               /\ x = ret.val
               /\ x.p_val \in Parities
               /\ x.p_arg \in Parities
               /\ \A i \in DOMAIN irreps :
                      irreps[i].p = x.p_val * Pow(x.p_arg, irreps[i].l)

\* synthesis of 1e + 0o with the override (-1, -1) returns a (-1, -1) signal
C8_Witness ==
    /\ pc = "synthesized"
    /\ call.op = "to_s2grid"
    /\ irreps = Ir1e \o Ir0o
    /\ p_val = -1
    /\ p_arg = -1
    /\ Returned
    /\ x.p_val = -1
    /\ x.p_arg = -1

\* C9: addition and subtraction raise whenever the operands differ in grid
\* resolution, in quadrature or in parity pair; they return only when all
\* three are identical.
C9_ArithmeticMismatch ==
    (pc = "arith" /\ call.op \in {"__add__", "__sub__"}) =>
        /\ (\/ x.res_beta # other.res_beta
            \/ x.res_alpha # other.res_alpha
            \/ x.quadrature # other.quadrature
            \/ x.p_val # other.p_val
            \/ x.p_arg # other.p_arg) => ret.exc = "ValueError"
        /\ Returned =>
               /\ x.res_beta = other.res_beta
               /\ x.res_alpha = other.res_alpha
               /\ x.quadrature = other.quadrature
               /\ x.p_val = other.p_val
               /\ x.p_arg = other.p_arg

\* a subtraction of two signals that differ in quadrature only
C9_Witness ==
    /\ pc = "arith"
    /\ call.op = "__sub__"
    /\ x.res_beta = other.res_beta
    /\ x.res_alpha = other.res_alpha
    /\ x.p_val = other.p_val
    /\ x.p_arg = other.p_arg
    /\ x.quadrature = "soft"
    /\ other.quadrature = "gausslegendre"
    /\ ret = Raise("ValueError", "quadrature")

\* some degree occurs more than once in the list: an irrep of multiplicity
\* above one, or two entries of the same degree (of equal or of opposite parity)
DegreeRepeated(irs) ==
    \/ \E i \in DOMAIN irs : irs[i].mul > 1
    \/ \E i, j \in DOMAIN irs : i # j /\ irs[i].l = irs[j].l

\* C10: from_s2grid, to_s2grid and to_s2point each raise, and produce no result,
\* for an irreps list in which some degree occurs more than once.
C10_MultiplicityOne ==
    (call.op \in {"from_s2grid", "to_s2grid", "to_s2point"} /\ DegreeRepeated(irreps)) =>
        /\ ~Returned
        /\ call.op = "to_s2grid" => x = NoSignal

\* point evaluation of 0e + 0e at a 1o direction is refused
C10_Witness ==
    /\ call.op = "to_s2point"
    /\ irreps = Ir0e \o Ir0e
    /\ call.point = [is_irreps_array |-> TRUE, irreps |-> Ir1o, shape |-> <<>>]
    /\ ret = Raise("ValueError", "multiplicities")

\* the call's arguments other than res_alpha and fft are valid: the irreps are
\* non-empty with distinct degrees and agree with a determinate parity pair,
\* the quadrature is known and fits res_beta, the normalization is known
ValidSynthesis ==
    /\ irreps # <<>>
    /\ ~DegreeRepeated(irreps)
    /\ \E pv \in Parities, pa \in Parities :
           /\ \A i \in DOMAIN irreps : irreps[i].p = pv * Pow(pa, irreps[i].l)
           /\ \/ p_val = pv /\ p_arg = pa
              \/ p_val = None /\ p_arg = None /\ Present(irreps, 0) /\ Present(irreps, 1)
    /\ \/ call.quadrature = "gausslegendre"
       \/ call.quadrature = "soft" /\ call.res_beta % 2 = 0
    /\ call.normalization \in {"component", "norm", "integral"}

\* C11: to_s2grid with fft=True and an even res_alpha raises and returns no
\* signal (the ValueError of the res_alpha check when the other arguments are
\* valid), and never the failed assertion of _irfft; with fft=False and
\* otherwise valid arguments an even res_alpha is accepted.
C11_EvenResAlpha ==
    (call.op = "to_s2grid" /\ call.res_alpha % 2 = 0) =>
        /\ ret # Raise("AssertionError", "res % 2 == 1")
        /\ call.fft =>
               /\ ~Returned
               /\ x = NoSignal
               /\ ValidSynthesis => ret = Raise("ValueError", "res_alpha must be odd for fft")
        /\ (~call.fft /\ ValidSynthesis) =>
               /\ Returned
               /\ x = ret.val
               /\ x.res_alpha = call.res_alpha

\* 0e + 1o on a Gauss-Legendre grid with res_alpha = 2 and fft=True is refused
C11_Witness ==
    /\ call.op = "to_s2grid"
    /\ irreps = Ir0e \o Ir1o
    /\ p_val = None
    /\ p_arg = None
    /\ call.fft
    /\ call.res_alpha = 2
    /\ call.res_beta = 3
    /\ call.quadrature = "gausslegendre"
    /\ call.normalization = "norm"
    /\ ret = Raise("ValueError", "res_alpha must be odd for fft")
    /\ x = NoSignal

\* C12 (as claimed): to_s2point on coefficients of batch shape shape1 and
\* directions of batch shape shape2 returns an array of shape
\* shape1 + shape2 + (1,) whose entry (c, q) is coefficient set c evaluated at
\* direction q.
C12_BatchOuterProduct ==
    (call.op = "to_s2point" /\ Returned) =>
        /\ ret.val.shape = shape \o call.point.shape \o <<1>>
        /\ \A c \in 0..(prod(shape) - 1), q \in 0..(prod(call.point.shape) - 1) :
               ret.val.flat[c * prod(call.point.shape) + q] = [point |-> q, coeffs |-> c]

\* the tolerance of a comparison of floating-point values, in units of 1/Scale
Tol == Scale \div 100

\* _s2grid returned for the soft quadrature with an even res_beta >= 4 or for
\* Gauss-Legendre with res_beta >= 1
MassCase ==
    /\ call.op = "_s2grid"
    /\ Returned
    /\ \/ arg.quadrature = "soft" /\ arg.res_beta % 2 = 0 /\ arg.res_beta >= 4
       \/ arg.quadrature = "gausslegendre" /\ arg.res_beta >= 1

\* C13 (as claimed): the weights returned by _s2grid sum to 1/2, for the soft
\* quadrature with every even res_beta >= 4 and for Gauss-Legendre with every
\* res_beta >= 1.
C13_QuadratureMassHalf ==
    MassCase =>
        /\ seq_sum(ret.val.qw) >= Scale \div 2 - Tol
        /\ seq_sum(ret.val.qw) <= Scale \div 2 + Tol

\* C13 (amended): the weights returned by _s2grid sum to 1, for the soft
\* quadrature with every even res_beta >= 4 and for Gauss-Legendre with every
\* res_beta >= 1.
C13_QuadratureMassOne ==
    MassCase =>
        /\ seq_sum(ret.val.qw) >= Scale - Tol
        /\ seq_sum(ret.val.qw) <= Scale + Tol

\* the soft grid of four rows
C13_Witness ==
    /\ call.op = "_s2grid"
    /\ arg.quadrature = "soft"
    /\ arg.res_beta = 4
    /\ Returned
    /\ Len(ret.val.qw) = 4
    /\ seq_sum(ret.val.qw) >= Scale - Tol

\* the arguments of the analysis other than fft are valid: the requested
\* irreps are non-empty with distinct degrees and agree with the signal's
\* parity pair, the signal's quadrature fits its res_beta, the normalization
\* is known
ValidAnalysis ==
    /\ irreps # <<>>
    /\ ~DegreeRepeated(irreps)
    /\ \A i \in DOMAIN irreps : irreps[i].p = x.p_val * Pow(x.p_arg, irreps[i].l)
    /\ \/ x.quadrature = "gausslegendre"
       \/ x.quadrature = "soft" /\ x.res_beta % 2 = 0
    /\ call.normalization \in {"component", "norm", "integral"}

\* C14 (as claimed): for an odd res_alpha >= 3 and otherwise valid arguments
\* the Fourier path (fft=True) and the direct summation (fft=False) both
\* succeed with the same result: analysis returns coefficients tagged with the
\* requested irreps, synthesis a signal on the requested grid.
C14_FastNaive ==
    /\ (/\ call.op = "from_s2grid"
        /\ x.res_alpha % 2 = 1
        /\ x.res_alpha >= 3
        /\ ValidAnalysis) =>
           /\ ~call.fft => ret = Return(irreps)
           /\ call.fft => ret = Return(irreps)
    /\ (/\ call.op = "to_s2grid"
        /\ call.res_alpha % 2 = 1
        /\ call.res_alpha >= 3
        /\ ValidSynthesis) =>
           /\ Returned
           /\ x = ret.val
           /\ <<x.res_beta, x.res_alpha>> = <<call.res_beta, call.res_alpha>>

\* the direct summation alone does what C14 says of both paths
NaiveAnalysisReturns ==
    (/\ call.op = "from_s2grid"
     /\ ~call.fft
     /\ x.res_alpha % 2 = 1
     /\ x.res_alpha >= 3
     /\ ValidAnalysis) => ret = Return(irreps)

\* the direction of the last to_s2point call is an IrrepsArray tagged 1e or 1o
DirectionOk == call.point.is_irreps_array /\ call.point.irreps \in {Ir1e, Ir1o}

\* the parity of the direction
DirectionParity == call.point.irreps[1].p

\* C15: for non-empty irreps of distinct degrees that agree with some p_val
\* and the direction's parity p_arg, a 1e or 1o direction and a known
\* normalization, to_s2point returns; whenever it returns, the value is tagged
\* 0e if p_val = +1 and 0o if p_val = -1, p_val being the even-degree parity
\* if an even degree is present and (odd-degree parity) * p_arg otherwise; the
\* tag lookup never fails.
C15_PointTag ==
    (call.op = "to_s2point") =>
        /\ ret.exc # "KeyError"
        /\ (/\ irreps # <<>>
            /\ ~DegreeRepeated(irreps)
            /\ DirectionOk
            /\ \E pv \in Parities :
                   \A i \in DOMAIN irreps : irreps[i].p = pv * Pow(DirectionParity, irreps[i].l)
            /\ call.normalization \in {"component", "norm", "integral"}) => Returned
        /\ Returned =>
               LET pv == IF Present(irreps, 0) THEN Observed(irreps, 0)
                         ELSE Observed(irreps, 1) * DirectionParity
               IN  ret.val.irreps = IF pv = 1 THEN Ir0e ELSE Ir0o

\* 1e alone at a 1o direction: p_val = (+1) * (-1), the value is tagged 0o
C15_Witness ==
    /\ call.op = "to_s2point"
    /\ irreps = Ir1e
    /\ call.point.irreps = Ir1o
    /\ call.point.is_irreps_array
    /\ Returned
    /\ ret.val.irreps = Ir0o

\* C16 (as claimed): a rotation of a signal returns a signal with the same
\* grid resolution, quadrature and parity pair. Stated for the signals most
\* favourable to the transforms: a quadrature that fits res_beta, an odd
\* res_alpha, and lmax <= res_alpha // 2.
C16_RotationKeepsGrid ==
    (/\ call.op = "_transform_by"
     /\ x.quadrature = "soft" => x.res_beta % 2 = 0
     /\ x.res_alpha % 2 = 1
     /\ call.lmax <= x.res_alpha \div 2) =>
        /\ Returned
        /\ ret.val = x

\* the list of degrees has no repetition
Distinct(ls_) == \A i, j \in DOMAIN ls_ : i # j => ls_[i] # ls_[j]

\* the flattened index at which the block of the k-th listed degree starts
RECURSIVE BlockStart(_, _)
BlockStart(ls_, k) == IF k = 1 THEN 0 ELSE BlockStart(ls_, k - 1) + 2 * ls_[k - 1] + 1

\* flattened index i is the coefficient of degree l and order o
IsCoefficient(ls_, i, l, o) ==
    /\ o \in (0 - l)..l
    /\ \E k \in DOMAIN ls_ : ls_[k] = l /\ i = BlockStart(ls_, k) + l + o

\* _expand_matrix returned for a list of distinct degrees
ExpandCase == call.op = "_expand_matrix" /\ arg # <<>> /\ Distinct(arg)

\* what C17 says besides the position of the ones: the shape, one entry equal
\* to 1 for every flattened index, zero rows for the degrees not listed
ExpandFrame ==
    LET lmax == seq_max(arg)
        m == ret.val.m
    IN  /\ Returned
        /\ ret.val.shape = <<lmax + 1, 2 * lmax + 1, BlockStart(arg, Len(arg)) + 2 * arg[Len(arg)] + 1>>
        /\ DOMAIN m = (0..(ret.val.shape[1] - 1)) \X (0..(ret.val.shape[2] - 1))
                          \X (0..(ret.val.shape[3] - 1))
        /\ \A t \in DOMAIN m : m[t] \in {0, 1}
        /\ \A i \in 0..(ret.val.shape[3] - 1) :
               Cardinality({t \in DOMAIN m : t[3] = i /\ m[t] = 1}) = 1
        /\ \A t \in DOMAIN m : (\A k \in DOMAIN arg : arg[k] # t[1]) => m[t] = 0

\* C17 (as claimed): entry (l, m, i) of _expand_matrix(ls) is 1 iff flattened
\* index i is the coefficient of degree l and order m - l.
C17_ExpandMatrixOrderFromL ==
    ExpandCase =>
        /\ ExpandFrame
        /\ \A t \in DOMAIN ret.val.m :
               ret.val.m[t] = 1 <=> IsCoefficient(arg, t[3], t[1], t[2] - t[1])

\* C17 (amended): entry (l, m, i) of _expand_matrix(ls) is 1 iff flattened
\* index i is the coefficient of degree l and order m - lmax, lmax = max(ls).
C17_ExpandMatrix ==
    ExpandCase =>
        /\ ExpandFrame
        /\ \A t \in DOMAIN ret.val.m :
               ret.val.m[t] = 1 <=> IsCoefficient(arg, t[3], t[1], t[2] - seq_max(arg))

\* ls = [2, 0]: the single coefficient of degree 0 is the sixth, in the middle column
C17_Witness ==
    /\ call.op = "_expand_matrix"
    /\ arg = <<2, 0>>
    /\ Returned
    /\ ret.val.shape = <<3, 5, 6>>
    /\ ret.val.m[<<0, 2, 5>>] = 1
    /\ ret.val.m[<<0, 0, 5>>] = 0

Abs(n) == IF n < 0 THEN 0 - n ELSE n

\* C18: for a compact array of (L+1)(L+2)/2 entries, _rollout_sh returns an
\* array of (L+1)^2 entries whose slot l^2 + l + m holds the compact entry
\* l(l+1)/2 + |m|, for every l <= L and m in [-l, l]; every slot is written
\* and the slots of +m and -m hold the same value.
C18_Rollout ==
    (/\ call.op = "_rollout_sh"
     /\ DOMAIN arg.m = 0..(((arg.lmax + 1) * (arg.lmax + 2)) \div 2 - 1)) =>
        /\ Returned
        /\ DOMAIN ret.val = 0..((arg.lmax + 1) * (arg.lmax + 1) - 1)
        /\ \A l \in 0..arg.lmax : \A mo \in (0 - l)..l :
               /\ ret.val[l * l + l + mo] = arg.m[(l * (l + 1)) \div 2 + Abs(mo)]
               /\ ret.val[l * l + l + mo] = ret.val[l * l + l - mo]
        /\ \A k \in DOMAIN ret.val : ret.val[k] # 0

\* L = 1: the compact entries (a, b, c) = (1, 2, 1) become (a, c, b, c)
C18_Witness ==
    /\ call.op = "_rollout_sh"
    /\ arg.lmax = 1
    /\ arg.m = (0 :> 1 @@ 1 :> 2 @@ 2 :> 1)
    /\ Returned
    /\ ret.val = (0 :> 1 @@ 1 :> 1 @@ 2 :> 2 @@ 3 :> 1)

\* C19: _s2grid raises for the soft quadrature with an odd res_beta and for a
\* quadrature name other than 'soft' and 'gausslegendre'; it returns for
\* 'gausslegendre' with every res_beta >= 1 and for 'soft' with every even
\* res_beta; when it returns, y and the weights have res_beta entries and
\* alpha has res_alpha entries.
C19_GridErrors ==
    (call.op = "_s2grid") =>
        /\ (arg.quadrature = "soft" /\ arg.res_beta % 2 = 1) => ~Returned
        /\ arg.quadrature \notin {"soft", "gausslegendre"} => ~Returned
        /\ (arg.quadrature = "gausslegendre" /\ arg.res_beta >= 1) => Returned
        /\ (arg.quadrature = "soft" /\ arg.res_beta % 2 = 0) => Returned
        /\ Returned =>
               /\ ret.val.y = arg.res_beta
               /\ Len(ret.val.qw) = arg.res_beta
               /\ ret.val.alpha = arg.res_alpha

\* the soft grid of three rows is refused
C19_Witness ==
    /\ call.op = "_s2grid"
    /\ arg.quadrature = "soft"
    /\ arg.res_beta = 3
    /\ arg.res_alpha = 2
    /\ ret = Raise("AssertionError", "res_beta")

ValidSignal(s) ==
    /\ s.quadrature \in {"soft", "gausslegendre"}
    /\ s.p_val \in {1, -1}
    /\ s.p_arg \in {1, -1}

SignalOps ==
    {"__init__", "__mul__", "__rmul__", "__add__", "__sub__", "apply", "to_s2grid",
     "resample", "_transform_by", "tree_unflatten"}

\* C21: whatever the sequence of constructions, scalar multiplications,
\* additions, subtractions, apply, synthesis, resampling, rotation and pytree
\* unflattening, every signal that exists (an operand or a returned one) has its
\* quadrature in {soft, gausslegendre} and both parities in {+1, -1}; a direct
\* construction with another quadrature or parity value raises an error.
C21_SignalsValid ==
    /\ x # NoSignal => ValidSignal(x)
    /\ other # NoSignal => ValidSignal(other)
    /\ call.op \in SignalOps /\ Returned => ValidSignal(ret.val)
    /\ /\ call.op = "__init__"
       /\ \/ call.quadrature \notin {"soft", "gausslegendre"}
          \/ call.p_val \notin {1, -1}
          \/ call.p_arg \notin {1, -1}
       => ret.exc = "ValueError"

\* a subtraction of two kept signals of odd value parity returned a signal
C21_Witness ==
    /\ call.op = "__sub__"
    /\ Returned
    /\ x.quadrature = "gausslegendre"
    /\ <<x.p_val, x.p_arg>> = <<-1, 1>>
    /\ ret.val.p_val = -1

\* ------------------------------------------------------------------ C22
\* the signal s with the default parity pair in place of its own
WithDefaultParity(s) == [s EXCEPT !.p_val = 1, !.p_arg = -1]

ParityPair(s) == <<s.p_val, s.p_arg>>

\* C22: apply returns a signal with the input's quadrature (and grid) whose
\* parity pair is the default (+1, -1) whatever the input's pair was; so for a
\* signal s whose pair is not (+1, -1), s + s.apply(identity) raises the
\* parity-mismatch error; scalar multiplication, addition and subtraction
\* return the operands' parity pair unchanged.
C22_ApplyDefaultParity ==
    /\ call.op = "apply" => Returned /\ ret.val = WithDefaultParity(x)
    /\ /\ call.op = "__add__"
       /\ other = WithDefaultParity(x)
       /\ ParityPair(x) # <<1, -1>>
       => ret = Raise("ValueError", "parity")
    /\ call.op \in {"__mul__", "__rmul__"} /\ Returned
       => ParityPair(ret.val) = ParityPair(x)
    /\ call.op \in {"__add__", "__sub__"} /\ Returned
       => ParityPair(ret.val) = ParityPair(x) /\ ParityPair(ret.val) = ParityPair(other)

\* s has the pair (-1, -1), the kept s.apply(identity) the pair (+1, -1), and
\* their sum raised
C22_Witness ==
    /\ call.op = "__add__"
    /\ ParityPair(x) = <<-1, -1>>
    /\ other = WithDefaultParity(x)
    /\ ret = Raise("ValueError", "parity")

\* ------------------------------------------------------------------ C23
\* no irrep of the list is repeated, so that regrouping leaves every
\* multiplicity at one
NoIrrepRepeated(irs) ==
    \A i, j \in DOMAIN irs : (irs[i].l = irs[j].l /\ irs[i].p = irs[j].p) => i = j

OneSided == (p_val = None) # (p_arg = None)

\* C23: to_s2grid called with exactly one of p_val and p_arg raises and returns
\* no signal, whatever the coefficients' irreps (also when the missing parity
\* could be derived from them); the error is one raised before the resolver is
\* called (the both-or-none ValueError when the irreps are non-empty with
\* multiplicities one), and to_s2grid returns only when both or neither
\* were supplied.
C23_OneSidedRejected ==
    call.op = "to_s2grid" =>
        /\ OneSided =>
               /\ ~Returned
               /\ x = NoSignal
               /\ ret \in {Raise("IndexError", "ls"), Raise("ValueError", "multiplicities"),
                           Raise("ValueError", "both or none")}
               /\ (/\ irreps # <<>>
                   /\ NoIrrepRepeated(irreps)
                   /\ \A i \in DOMAIN irreps : irreps[i].mul = 1)
                  => ret = Raise("ValueError", "both or none")
        /\ Returned => ~OneSided

\* 0e + 1o determines both parities, yet p_val = 1 alone is refused
C23_Witness ==
    /\ call.op = "to_s2grid"
    /\ irreps = Ir0e \o Ir1o
    /\ p_val = 1
    /\ p_arg = None
    /\ ret = Raise("ValueError", "both or none")

\* ------------------------------------------------------------------ C24
\* a failure of _check_consistency
ConsistencyErrors ==
    {Raise("ValueError", "could not compute"), Raise("ValueError", "inconsistent")}

\* the pair the call's arguments resolve to: the supplied one, or the one
\* carried by the irreps
ResolvedPair ==
    IF p_val # None /\ p_arg # None THEN <<p_val, p_arg>>
    ELSE <<Observed(irreps, 0), Observed(irreps, 0) * Observed(irreps, 1)>>

\* C24: the second parity block of to_s2grid (_extract_element,
\* _compute_parities, _check_consistency) changes nothing: no call ends in an
\* error of the block, a returned signal carries exactly the pair that was
\* resolved before the block, and every call that passes _check_parities and
\* the determinacy check with valid grid arguments returns.
C24_SecondBlockRedundant ==
    call.op = "to_s2grid" =>
        /\ ret \notin ConsistencyErrors
        /\ Returned =>
               /\ x = ret.val
               /\ ParityPair(x) = ResolvedPair
        /\ ((call.fft => call.res_alpha % 2 = 1) /\ ValidSynthesis) => Returned

\* 0e alone with the override (1, -1): the block cannot compute p_arg and
\* keeps the supplied one
C24_Witness ==
    /\ call.op = "to_s2grid"
    /\ irreps = Ir0e
    /\ p_val = 1
    /\ p_arg = -1
    /\ Returned
    /\ ParityPair(x) = <<1, -1>>

\* ------------------------------------------------------------------ C25
\* the sample at the 0-based index k of v is a local maximum of v: it lies in
\* a run of equal samples, none of them the first or the last of v, with a
\* lower sample on either side, and is the middle of that run (the left one of
\* two); for a run of one sample: it is higher than both its neighbours
LocalMaximum(v, k) ==
    \E a \in 1..(Len(v) - 2), b \in 1..(Len(v) - 2) :
        /\ a <= k
        /\ k <= b
        /\ \A m \in a..b : v[m + 1] = v[k + 1]
        /\ v[a] < v[a + 1]
        /\ v[b + 2] < v[b + 1]
        /\ k = (a + b) \div 2

\* higher than the neighbours above, below, left and right
StrictMaximum(g, i, j) ==
    /\ i \in 1..(Len(g) - 2)
    /\ j \in 1..(Len(g[1]) - 2)
    /\ g[i][j + 1] < g[i + 1][j + 1]
    /\ g[i + 2][j + 1] < g[i + 1][j + 1]
    /\ g[i + 1][j] < g[i + 1][j + 1]
    /\ g[i + 1][j + 2] < g[i + 1][j + 1]

\* the 0-based indices of the grid g
Indices(g) == (0..(Len(g) - 1)) \X (0..(Len(g[1]) - 1))

MaximaOf(g) ==
    {ij \in Indices(g) :
        /\ LocalMaximum(row(g, ij[1]), ij[2])
        /\ LocalMaximum(column(g, ij[2]), ij[1])}

\* C25: _find_peaks_2d returns a list without duplicates whose elements are
\* exactly the indices (i, j) such that j is a local maximum of row i and i is
\* a local maximum of column j; no returned index lies in the first or last
\* row or column; every point higher than its four neighbours is returned;
\* a grid without a maximum in both directions gives the empty list.
C25_PeaksInBothDirections ==
    call.op = "_find_peaks_2d" =>
        /\ Returned
        /\ \A a, b \in DOMAIN ret.val : ret.val[a] = ret.val[b] => a = b
        /\ {ret.val[a] : a \in DOMAIN ret.val} = MaximaOf(arg)
        /\ \A a \in DOMAIN ret.val :
               /\ ret.val[a][1] \in 1..(Len(arg) - 2)
               /\ ret.val[a][2] \in 1..(Len(arg[1]) - 2)
        /\ \A ij \in Indices(arg) :
               StrictMaximum(arg, ij[1], ij[2]) => \E a \in DOMAIN ret.val : ret.val[a] = ij
        /\ MaximaOf(arg) = {} => ret.val = <<>>

\* a 3 x 4 grid that is 0 except for a 1 at (1, 1): the list holds (1, 1) alone
C25_Witness ==
    /\ call.op = "_find_peaks_2d"
    /\ arg = <<<<0, 0, 0, 0>>, <<0, 1, 0, 0>>, <<0, 0, 0, 0>>>>
    /\ ret = Return(<<<<1, 1>>>>)

====
